---- MODULE Spec2Model ----
(***************************************************************************)
(* A model of gensyncio: the generator-driven event loop (loop.py), its    *)
(* tasks (task.py), futures (future.py) and the synchronisation primitives *)
(* built on them (sync.py: Lock, Event; queue.py: Queue).                   *)
(*                                                                         *)
(* The loop is single threaded.  One tick is modelled by TickBegin (the    *)
(* drain of to_add), one advance per entry of running (a Resume* action    *)
(* hands control to the task's generator, which then executes operations   *)
(* until it yields, parks on a Future, or returns) and TickEnd (callbacks   *)
(* and removals).  cur names the task whose generator is executing.        *)
(***************************************************************************)
EXTENDS Integers, Sequences, FiniteSets, TLC

\* Bounds of the model.
NTasks == 3
MaxTicks == 3
MaxOps == 6
MaxQueueOps == 4
MaxCancelOps == 4
MaxLoopOps == 3
MaxSize == 2
MaxCallbacks == 2
MaxGather == 2

Tasks == 1..NTasks
None == 0
\* a key that is not in gather's results dict
Missing == -1

VARIABLES
  \* Loop (loop.py:14-17) and the position of tick() in its code
  running, to_add, to_delete, phase, idx, cur, tickNo,
  \* Task (task.py:11-17); pc is the place the generator is suspended at
  status, pc, result, tfut, titem, callbacks,
  \* every Future created so far (future.py:8-18)
  futs,
  \* Lock (sync.py:12-14)
  locked, lwaiters,
  \* Event (sync.py:72-74)
  evalue, ewaiters,
  \* Queue (queue.py:12-19)
  maxsize, queue, getters, putters, unfinished, finished,
  \* number of operations executed so far, and the most the run executes
  nops, limit,
  \* the primitive the tasks of the run use ("any": no restriction)
  prim,
  \* the producer/consumer run: the two tasks, the number of items each moves,
  \* and the pauses the consumer has made between its gets
  producer, consumer, target, pauses,
  \* Queue.join: the waiters of the queue's _finished Event, the number of times
  \* unfinished_tasks reached 0, what each task saw when it called join(), and
  \* the joins that completed
  fwaiters, zeros, joinAt, joinRet,
  \* observations: what the tasks saw, in the order they saw it
  holders, acqOrder, enterOrder, lastRel,
  waitRet,
  putSeq, getSeq, nEnq, nDone, waitGet, waitPut, nitems,
  cbLog, admTick, firstAdv, err, delivered,
  \* the value each coroutine returned, the number of Task.set_result calls,
  \* and the errors that calls on a primitive in the wrong state raised
  retval, nset, raised,
  \* gather (utils.py:19-36): its locals tasks, ordered_ids, results per
  \* gathering task, and the tuple it returned
  gtasks, gids, gres, gout,
  \* yield from Task: the awaited task, the value the awaiter received, and
  \* the tasks whose generator was advanced by another task
  awaited, recv, advBy,
  \* run_until_complete / cancel_all (loop.py:64-82): the root task and the
  \* position of the driver, the value returned, and the tasks that were in
  \* running when cancel_all was called
  root, ruc, rucResult, caSnap,
  \* the tasks inside the body of a `with lock:` statement (sync.py:63-68)
  scoped

loopVars == <<running, to_add, to_delete, phase, idx, cur, tickNo>>
taskVars == <<status, pc, result, tfut, titem, callbacks>>
lockVars == <<locked, lwaiters, holders, acqOrder, enterOrder, lastRel, scoped>>
joinVars == <<fwaiters, zeros, joinAt, joinRet>>
eventVars == <<evalue, ewaiters, waitRet, joinVars>>
queueVars == <<maxsize, queue, getters, putters, unfinished, finished,
               putSeq, getSeq, nEnq, nDone, waitGet, waitPut, nitems>>
obsVars == <<cbLog, admTick, firstAdv, err, delivered>>
progVars == <<producer, consumer, target, pauses>>
runVars == <<limit, prim, progVars>>
histVars == <<retval, nset, raised>>
gatherVars == <<gtasks, gids, gres, gout>>
awaitVars == <<awaited, recv, advBy>>
drvVars == <<root, ruc, rucResult, caSnap>>
extVars == <<histVars, gatherVars, awaitVars, drvVars>>
vars == <<loopVars, taskVars, futs, lockVars, eventVars, queueVars, nops, runVars,
          obsVars, extVars>>

----------------------------------------------------------------------------
\* Sequences as Python lists / deques.

Contains(s, x) == \E i \in 1..Len(s) : s[i] = x

\* list.remove(x) / deque.remove(x): drops the first occurrence.
RECURSIVE RemoveFirst(_, _)
RemoveFirst(s, x) ==
  IF s = <<>> THEN <<>>
  ELSE IF Head(s) = x THEN Tail(s)
  ELSE <<Head(s)>> \o RemoveFirst(Tail(s), x)

Count(s, x) == Cardinality({i \in 1..Len(s) : s[i] = x})

IsPrefix(s, t) == Len(s) <= Len(t) /\ \A i \in 1..Len(s) : s[i] = t[i]

----------------------------------------------------------------------------
\* Future (future.py)

\* The task owning a future has already been advanced in the current tick
\* (or no tick is in progress): it sees a result set now on the next tick.
AlreadyAdvanced(t) ==
  phase = "idle" \/ \E i \in 1..(idx - 1) : i <= Len(running) /\ running[i] = t

\* Loop.create_future / Future.__init__: result = Undefined
NewFuture(t, k) ==
  [owner |-> t, kind |-> k, res |-> "Undefined", sets |-> 0, at |-> 0, late |-> FALSE,
   re |-> FALSE, by |-> None]

\* Future.done: result != Undefined
FutureDone(fs, f) == fs[f].res # "Undefined"

\* Future.set_result: overwrites the result (sets counts the calls; at, by and
\* late remember the tick and the caller of the first call)
SetResult(fs, f, v) ==
  [fs EXCEPT ![f] = [@ EXCEPT !.res = v, !.sets = @ + 1,
                              !.at = IF fs[f].sets = 0 THEN tickNo ELSE @,
                              !.by = IF fs[f].sets = 0 THEN cur ELSE @,
                              !.late = IF fs[f].sets = 0
                                       THEN AlreadyAdvanced(fs[f].owner) ELSE @]]

----------------------------------------------------------------------------
\* Initial state: a fresh Loop, Lock, Event and Queue; no task created yet.

\* no producer/consumer program: the tasks choose their operations freely
NoProgram == producer = None /\ consumer = None /\ target = 0 /\ pauses = 0

InitState ==
  /\ running = <<>> /\ to_add = <<>> /\ to_delete = <<>>
  /\ phase = "idle" /\ idx = 1 /\ cur = None /\ tickNo = 0
  /\ status = [t \in Tasks |-> "unborn"]
  /\ pc = [t \in Tasks |-> "unborn"]
  /\ result = [t \in Tasks |-> None]
  /\ tfut = [t \in Tasks |-> 0]
  /\ titem = [t \in Tasks |-> 0]
  /\ callbacks = [t \in Tasks |-> <<>>]
  /\ futs = <<>>
  /\ locked = FALSE /\ lwaiters = <<>>
  /\ evalue = FALSE /\ ewaiters = <<>>
  /\ queue = <<>> /\ getters = <<>> /\ putters = <<>>
  /\ unfinished = 0 /\ finished = TRUE
  /\ nops = 0
  /\ holders = {} /\ acqOrder = <<>> /\ enterOrder = <<>> /\ lastRel = <<None, 0>>
  /\ scoped = {}
  /\ waitRet = {}
  /\ fwaiters = <<>> /\ zeros = 0 /\ joinRet = {}
  /\ joinAt = [t \in Tasks |-> [unf |-> 0, zeros |-> 0]]
  /\ putSeq = <<>> /\ getSeq = <<>> /\ nEnq = 0 /\ nDone = 0
  /\ waitGet = <<>> /\ waitPut = <<>> /\ nitems = 0
  /\ cbLog = [t \in Tasks |-> <<>>]
  /\ admTick = [t \in Tasks |-> [tick |-> -1, by |-> "nobody"]]
  /\ firstAdv = [t \in Tasks |-> 0]
  /\ err = {} /\ delivered = {}
  /\ retval = [t \in Tasks |-> None] /\ nset = [t \in Tasks |-> 0]
  /\ raised = <<>>
  /\ gtasks = [t \in Tasks |-> <<>>] /\ gids = [t \in Tasks |-> <<>>]
  /\ gres = [t \in Tasks |-> [u \in Tasks |-> Missing]] /\ gout = [t \in Tasks |-> <<>>]
  /\ awaited = [t \in Tasks |-> None] /\ recv = [t \in Tasks |-> <<>>]
  /\ advBy = {}
  /\ root = None /\ ruc = "none" /\ rucResult = None /\ caSnap = {}

InitCommon == NoProgram /\ InitState

\* Queue() : maxsize defaults to 0 (unbounded)
Init == InitCommon /\ maxsize = 0 /\ limit = MaxOps /\ prim = "any"

\* Queue(maxsize) for every small maxsize
InitQueue == InitCommon /\ maxsize \in 0..MaxSize /\ limit = MaxQueueOps /\ prim = "any"

\* Queue(1), so that both getters and putters park; the tasks of one run use one
\* of the three primitives
InitCancel ==
  InitCommon /\ maxsize = 1 /\ limit = MaxCancelOps /\ prim \in {"lock", "event", "queue"}

\* the tasks of one run use the queue (of any small maxsize) or the lock
InitMisuse ==
  /\ InitCommon /\ limit = MaxQueueOps
  /\ \/ prim = "queue" /\ maxsize \in 0..MaxSize
     \/ prim = "lock" /\ maxsize = 0

InitLoop == InitCommon /\ maxsize = 0 /\ limit = MaxLoopOps /\ prim = "any"

InitQueueNC ==
  InitCommon /\ maxsize \in 0..MaxSize /\ limit = MaxQueueOps + 1 /\ prim = "any"

----------------------------------------------------------------------------
\* Loop (loop.py)

\* Code runs either in a task's generator (cur) or in the driver between ticks.
Active == phase = "idle" \/ cur # None

AtTask(t) ==
  phase = "sweep" /\ cur = None /\ idx <= Len(running) /\ running[idx] = t

\* the generator yields (or stays parked): tick() moves to the next task
EndAdvance == cur' = None /\ idx' = idx + 1

\* Task.set_done
SetDoneAlways(st) == "finished"
SetDone(st) == IF st = "cancelled" THEN st ELSE "finished"

\* Loop.tick lines 28-31: StopIteration(v) from next(task)
TaskStop(t, v) ==
  /\ result' = [result EXCEPT ![t] = v]
  /\ nset' = [nset EXCEPT ![t] = @ + 1]
  /\ status' = [status EXCEPT ![t] = SetDone(@)]
  /\ to_delete' = Append(to_delete, t)

\* Loop.add_task
AddTaskToRunning(t) == running' = Append(running, t) /\ UNCHANGED to_add
AddTask(t) == to_add' = Append(to_add, t) /\ UNCHANGED running

Unborn == {t \in Tasks : status[t] = "unborn"}
MinOf(S) == CHOOSE x \in S : \A y \in S : x <= y

\* Loop.create_task(generator): a new Task, bound to the loop, staged in to_add.
Spawn(u) ==
  /\ Active
  /\ Unborn # {} /\ u = MinOf(Unborn)
  /\ status' = [status EXCEPT ![u] = "pending"]
  /\ pc' = [pc EXCEPT ![u] = "new"]
  /\ AddTask(u)
  /\ admTick' = [admTick EXCEPT ![u] = [tick |-> tickNo,
                                        by |-> IF cur = None THEN "driver" ELSE "task"]]
  /\ UNCHANGED <<to_delete, phase, idx, cur, tickNo, result, tfut, titem, callbacks,
                 futs, lockVars, eventVars, queueVars, runVars, cbLog, firstAdv, err,
                 delivered, histVars, gatherVars, awaitVars>>

\* Loop.create_task(task) with a Task that was created before
Readmit(u) ==
  /\ Active /\ nops < limit
  /\ status[u] # "unborn"
  /\ AddTask(u)
  /\ nops' = nops + 1 /\ UNCHANGED <<runVars, extVars>>
  /\ UNCHANGED <<to_delete, phase, idx, cur, tickNo, taskVars,
                 futs, lockVars, eventVars, queueVars, obsVars>>

\* Task.add_done_callback; a callback either only records its call ("note") or
\* also calls loop.create_task on a new coroutine ("spawn")
AddDoneCallback(u, k) ==
  /\ Active /\ nops < limit
  /\ status[u] = "pending"
  /\ Len(callbacks[u]) < MaxCallbacks
  /\ callbacks' = [callbacks EXCEPT ![u] = Append(@, k)]
  /\ nops' = nops + 1 /\ UNCHANGED <<runVars, extVars>>
  /\ UNCHANGED <<loopVars, status, pc, result, tfut, titem,
                 futs, lockVars, eventVars, queueVars, obsVars>>

\* Loop.tick lines 20-23
TickBegin ==
  /\ phase = "idle" /\ tickNo < MaxTicks
  /\ running' = running \o to_add
  /\ to_add' = <<>>
  /\ phase' = "sweep" /\ idx' = 1 /\ tickNo' = tickNo + 1
  /\ UNCHANGED <<to_delete, cur, taskVars, futs, lockVars, eventVars, queueVars,
                 nops, runVars, extVars, obsVars>>

\* next(task) on a generator that has not started or is suspended at a plain yield
ResumePlain(t) ==
  /\ AtTask(t) /\ pc[t] \in {"new", "idle"}
  /\ cur' = t
  /\ pc' = [pc EXCEPT ![t] = "run"]
  /\ firstAdv' = [firstAdv EXCEPT ![t] = IF @ = 0 THEN tickNo ELSE @]
  /\ UNCHANGED <<running, to_add, to_delete, phase, idx, tickNo,
                 status, result, tfut, titem, callbacks,
                 futs, lockVars, eventVars, queueVars, nops, runVars, extVars, cbLog, admTick, err, delivered>>

\* next(task) on a generator that has returned or raised: StopIteration (None)
ResumeClosed(t) ==
  /\ AtTask(t) /\ pc[t] \in {"closed", "raised"}
  /\ TaskStop(t, None)
  /\ EndAdvance
  /\ firstAdv' = [firstAdv EXCEPT ![t] = IF @ = 0 THEN tickNo ELSE @]
  /\ UNCHANGED <<running, to_add, phase, tickNo, pc, tfut, titem, callbacks,
                 futs, lockVars, eventVars, queueVars, nops, runVars, cbLog, admTick,
                 err, delivered, retval, raised, gatherVars, awaitVars, drvVars>>

\* the running generator executes a bare yield
Yield(t) ==
  /\ cur = t
  /\ pc' = [pc EXCEPT ![t] = "idle"]
  /\ EndAdvance
  /\ UNCHANGED <<running, to_add, to_delete, phase, tickNo,
                 status, result, tfut, titem, callbacks,
                 futs, lockVars, eventVars, queueVars, nops, runVars, extVars, obsVars>>

\* the running generator returns (its value is its own id); a lock holder
\* releases before it returns
Return(t) ==
  /\ cur = t /\ t \notin holders
  /\ pc' = [pc EXCEPT ![t] = "closed"]
  /\ TaskStop(t, t)
  /\ retval' = [retval EXCEPT ![t] = t]
  /\ EndAdvance
  /\ UNCHANGED <<running, to_add, phase, tickNo, tfut, titem, callbacks,
                 futs, lockVars, eventVars, queueVars, nops, runVars, obsVars,
                 raised, gatherVars, awaitVars, drvVars>>

\* the running generator raises an error other than StopIteration: tick() has
\* no handler for it, the error leaves tick() at line 27 and lines 28-42 are
\* not executed (to_delete keeps its entries).
Raise(t) ==
  /\ cur = t /\ t \notin holders
  /\ pc' = [pc EXCEPT ![t] = "raised"]
  /\ cur' = None /\ phase' = "idle" /\ idx' = 1
  /\ err' = err \cup {"TaskError"}
  /\ UNCHANGED <<running, to_add, to_delete, tickNo, status, result, tfut, titem,
                 callbacks, futs, lockVars, eventVars, queueVars, nops, runVars,
                 cbLog, admTick, firstAdv, delivered, extVars>>

\* Loop.tick lines 33-42, for the tasks of to_delete in order: the callbacks of
\* the task in registration order, then running.remove(task).
FireCallbacks(r, t, i) ==
  LET logged == [r EXCEPT !.log[t] = Append(@, i)]
      free == {u \in Tasks : logged.st[u] = "unborn"}
  IN IF callbacks[t][i] = "spawn" /\ free # {}
     THEN LET u == MinOf(free)
          IN [logged EXCEPT !.st[u] = "pending", !.pcs[u] = "new",
                            !.add = Append(@, u),
                            !.adm[u] = [tick |-> tickNo, by |-> "callback"]]
     ELSE logged

RECURSIVE FireAll(_, _, _)
FireAll(r, t, i) ==
  IF i > Len(callbacks[t]) THEN r ELSE FireAll(FireCallbacks(r, t, i), t, i + 1)

RECURSIVE Reap(_, _)
Reap(r, del) ==
  IF del = <<>> THEN r
  ELSE LET fired == FireAll(r, Head(del), 1)
       IN Reap([fired EXCEPT !.run = RemoveFirst(@, Head(del))], Tail(del))

TickEnd ==
  /\ phase = "sweep" /\ cur = None /\ idx > Len(running)
  /\ LET r == Reap([run |-> running, add |-> to_add, log |-> cbLog, st |-> status,
                    pcs |-> pc, adm |-> admTick], to_delete)
     IN /\ running' = r.run
        /\ to_add' = r.add
        /\ cbLog' = r.log
        /\ status' = r.st
        /\ pc' = r.pcs
        /\ admTick' = r.adm
  /\ to_delete' = <<>>
  /\ phase' = "idle" /\ idx' = 1
  /\ UNCHANGED <<cur, tickNo, result, tfut, titem, callbacks,
                 futs, lockVars, eventVars, queueVars, nops, runVars, extVars, firstAdv, err, delivered>>

\* Task.cacnel on a task that has not started or is suspended at a bare yield:
\* the generator does not handle the error, the caller catches it.
CancelPlain(u) ==
  /\ Active /\ cur # u /\ nops < limit
  /\ pc[u] \in {"new", "idle"} /\ u \notin holders
  /\ status' = [status EXCEPT ![u] = "cancelled"]
  /\ delivered' = delivered \cup {u}
  /\ pc' = [pc EXCEPT ![u] = "closed"]
  /\ nops' = nops + 1 /\ UNCHANGED <<runVars, extVars>>
  /\ UNCHANGED <<loopVars, result, tfut, titem, callbacks,
                 futs, lockVars, eventVars, queueVars, cbLog, admTick, firstAdv, err>>

\* Task.cacnel on a task suspended at a yield inside a try block whose handler
\* swallows the error and yields again: gen.throw returns, cacnel returns.
CancelSwallow(u) ==
  /\ Active /\ cur # u /\ nops < limit
  /\ pc[u] = "idle" /\ status[u] = "pending"
  /\ status' = [status EXCEPT ![u] = "cancelled"]
  /\ nops' = nops + 1
  /\ UNCHANGED <<loopVars, pc, result, tfut, titem, callbacks,
                 futs, lockVars, eventVars, queueVars, runVars, obsVars, extVars>>

\* Task.done
Done(t) == status[t] \in {"finished", "cancelled"}

\* Loop.run_until_complete up to its loop: the coroutine becomes the root task
RunUntilComplete(u) ==
  /\ phase = "idle" /\ ruc = "none"
  /\ Spawn(u)
  /\ root' = u /\ ruc' = "loop"
  /\ UNCHANGED <<nops, rucResult, caSnap>>

\* Loop.run_until_complete lines 78-82: the root is not done, tick()
RucTick ==
  /\ ruc = "loop" /\ ~Done(root)
  /\ TickBegin

\* Loop.cancel_all, called by run_until_complete once the root is done.  Task
\* has no attribute cancel (its method is cacnel): the first task of running
\* raises AttributeError, which the except clause does not catch.  With an
\* empty running the loop body is skipped and tick() is called.
CancelAll ==
  /\ phase = "idle" /\ ruc = "loop" /\ Done(root)
  /\ tickNo < MaxTicks
  /\ caSnap' = {running[i] : i \in 1..Len(running)}
  /\ IF running = <<>>
     THEN /\ ruc' = "cancel_all"
          /\ running' = to_add
          /\ to_add' = <<>>
          /\ phase' = "sweep" /\ idx' = 1 /\ tickNo' = tickNo + 1
          /\ UNCHANGED err
     ELSE /\ ruc' = "raised"
          /\ err' = err \cup {"AttributeError"}
          /\ UNCHANGED <<running, to_add, phase, idx, tickNo>>
  /\ UNCHANGED <<to_delete, cur, taskVars, futs, lockVars, eventVars, queueVars,
                 nops, runVars, cbLog, admTick, firstAdv, delivered,
                 histVars, gatherVars, awaitVars, root, rucResult>>

\* Loop.run_until_complete line 81, after cancel_all has returned
RucReturn ==
  /\ phase = "idle" /\ ruc = "cancel_all"
  /\ ruc' = "returned"
  /\ rucResult' = result[root]
  /\ UNCHANGED <<loopVars, taskVars, futs, lockVars, eventVars, queueVars,
                 nops, runVars, obsVars, histVars, gatherVars, awaitVars, root, caSnap>>

----------------------------------------------------------------------------
\* Lock (sync.py:11-68)

\* Lock._wake_up_next
LockWakeUpLast(w, fs) ==
  IF w = <<>> THEN fs
  ELSE IF ~FutureDone(fs, w[Len(w)]) THEN SetResult(fs, w[Len(w)], "True") ELSE fs
LockWakeUpNext(w, fs) ==
  IF w = <<>> THEN fs
  ELSE IF ~FutureDone(fs, Head(w)) THEN SetResult(fs, Head(w), "True") ELSE fs

\* Lock.acquire line 17
LockFreeBarging == ~locked
LockFree == ~locked /\ lwaiters = <<>>

\* Lock.acquire up to its first pause
Acquire(t) ==
  /\ cur = t /\ t \notin holders /\ nops < limit
  /\ nops' = nops + 1 /\ UNCHANGED <<runVars, extVars>>
  /\ acqOrder' = Append(acqOrder, t)
  /\ IF LockFree
     THEN /\ locked' = TRUE
          /\ holders' = holders \cup {t}
          /\ enterOrder' = Append(enterOrder, t)
          /\ UNCHANGED <<lwaiters, futs, pc, tfut, idx, cur>>
     ELSE /\ futs' = Append(futs, [NewFuture(t, "acq") EXCEPT
                                       !.re = (lastRel = <<t, tickNo>>)])
          /\ lwaiters' = Append(lwaiters, Len(futs) + 1)
          /\ tfut' = [tfut EXCEPT ![t] = Len(futs) + 1]
          /\ pc' = [pc EXCEPT ![t] = "acq"]
          /\ EndAdvance
          /\ UNCHANGED <<locked, holders, enterOrder>>
  /\ UNCHANGED <<running, to_add, to_delete, phase, tickNo, lastRel, scoped,
                 status, result, titem, callbacks, eventVars, queueVars, obsVars>>

\* next(task) on a task parked in Lock.acquire (lines 25-34)
ResumeAcq(t) ==
  /\ AtTask(t) /\ pc[t] = "acq"
  /\ IF FutureDone(futs, tfut[t])
     THEN /\ lwaiters' = RemoveFirst(lwaiters, tfut[t])
          /\ err' = IF Contains(lwaiters, tfut[t]) THEN err ELSE err \cup {"ValueError"}
          /\ locked' = TRUE
          /\ holders' = holders \cup {t}
          /\ enterOrder' = Append(enterOrder, t)
          /\ cur' = t
          /\ pc' = [pc EXCEPT ![t] = "run"]
          /\ UNCHANGED idx
     ELSE /\ idx' = idx + 1
          /\ UNCHANGED <<lwaiters, err, locked, holders, enterOrder, cur, pc>>
  /\ UNCHANGED <<running, to_add, to_delete, phase, tickNo,
                 status, result, tfut, titem, callbacks, futs, acqOrder, lastRel, scoped,
                 eventVars, queueVars, nops, runVars, extVars, cbLog, admTick, firstAdv, delivered>>

\* Lock.release, called by the holder
Release(t) ==
  /\ cur = t /\ t \in holders /\ nops < limit
  /\ nops' = nops + 1 /\ UNCHANGED <<runVars, extVars>>
  /\ holders' = holders \ {t}
  /\ lastRel' = <<t, tickNo>>
  /\ IF ~locked
     THEN /\ err' = err \cup {"RuntimeError"}
          /\ UNCHANGED <<locked, futs>>
     ELSE /\ locked' = FALSE
          /\ futs' = LockWakeUpNext(lwaiters, futs)
          /\ UNCHANGED err
  /\ UNCHANGED <<loopVars, taskVars, lwaiters, acqOrder, enterOrder, scoped,
                 eventVars, queueVars, cbLog, admTick, firstAdv, delivered>>

\* Lock.release line 37
LockNotHeldIgnored == FALSE
LockNotHeld == ~locked

\* Lock.release called by a task that does not hold the lock: on an unlocked
\* lock it raises RuntimeError; release() does not look at who holds the lock.
ReleaseFree(t) ==
  /\ cur = t /\ t \notin holders /\ nops < limit
  /\ nops' = nops + 1
  /\ IF LockNotHeld
     THEN /\ raised' = Append(raised, "LockNotAcquired")
          /\ UNCHANGED <<locked, futs, lastRel>>
     ELSE /\ locked' = FALSE
          /\ futs' = LockWakeUpNext(lwaiters, futs)
          /\ lastRel' = <<t, tickNo>>
          /\ UNCHANGED raised
  /\ UNCHANGED <<loopVars, taskVars, lwaiters, holders, acqOrder, enterOrder, scoped,
                 eventVars, queueVars, runVars, obsVars,
                 retval, nset, gatherVars, awaitVars, drvVars>>

\* `with lock:` calls Lock.__enter__ (lines 63-65), a generator function: the
\* call builds a generator object that nothing advances, acquire() never runs,
\* and the body starts with the lock as it was.
ScopeEnter(t) ==
  /\ cur = t /\ t \notin scoped /\ nops < limit
  /\ nops' = nops + 1
  /\ scoped' = scoped \cup {t}
  /\ UNCHANGED <<loopVars, taskVars, futs, locked, lwaiters, holders, acqOrder,
                 enterOrder, lastRel, eventVars, queueVars, runVars, obsVars, extVars>>

\* leaving the body, normally or by an error, calls Lock.__exit__ (lines 67-68),
\* that is release(): RuntimeError on an unlocked lock, else the lock is
\* released whoever holds it.
ScopeExit(t) ==
  /\ cur = t /\ t \in scoped /\ nops < limit
  /\ nops' = nops + 1
  /\ scoped' = scoped \ {t}
  /\ IF LockNotHeld
     THEN /\ raised' = Append(raised, "LockNotAcquired")
          /\ UNCHANGED <<locked, futs, lastRel, holders>>
     ELSE /\ locked' = FALSE
          /\ futs' = LockWakeUpNext(lwaiters, futs)
          /\ lastRel' = <<t, tickNo>>
          /\ holders' = holders \ {t}
          /\ UNCHANGED raised
  /\ UNCHANGED <<loopVars, taskVars, lwaiters, acqOrder, enterOrder,
                 eventVars, queueVars, runVars, obsVars,
                 retval, nset, gatherVars, awaitVars, drvVars>>

\* Lock.acquire lines 28-30: the cancelled waiter passes the free lock on
LockNoHandOver(w, fs) == fs
LockHandOver(w, fs) == IF ~locked THEN LockWakeUpNext(w, fs) ELSE fs

\* Task.cacnel on a task parked in Lock.acquire: lines 26-31 unwind
CancelAcq(u) ==
  /\ Active /\ cur # u /\ nops < limit
  /\ pc[u] = "acq"
  /\ nops' = nops + 1 /\ UNCHANGED <<runVars, extVars>>
  /\ status' = [status EXCEPT ![u] = "cancelled"]
  /\ delivered' = delivered \cup {u}
  /\ pc' = [pc EXCEPT ![u] = "closed"]
  /\ LET w == RemoveFirst(lwaiters, tfut[u])
     IN /\ lwaiters' = w
        /\ err' = IF Contains(lwaiters, tfut[u]) THEN err ELSE err \cup {"ValueError"}
        /\ futs' = LockHandOver(w, futs)
  /\ UNCHANGED <<loopVars, result, tfut, titem, callbacks, locked, holders, scoped,
                 acqOrder, enterOrder, lastRel, eventVars, queueVars, cbLog, admTick, firstAdv>>

----------------------------------------------------------------------------
\* Event (sync.py:71-100)

\* Event.set lines 83-85: every waiter that is not done is resolved
RECURSIVE EventSetAll(_, _)
EventSetFirst(w, fs) ==
  IF w = <<>> THEN fs
  ELSE IF ~FutureDone(fs, Head(w)) THEN SetResult(fs, Head(w), "True") ELSE fs
EventSetAll(w, fs) ==
  IF w = <<>> THEN fs
  ELSE EventSetAll(Tail(w),
                   IF ~FutureDone(fs, Head(w)) THEN SetResult(fs, Head(w), "True") ELSE fs)

\* Event.wait up to its first pause
Wait(t) ==
  /\ cur = t /\ nops < limit
  /\ nops' = nops + 1 /\ UNCHANGED <<runVars, extVars>>
  /\ IF evalue
     THEN UNCHANGED <<ewaiters, futs, pc, tfut, idx, cur>>
     ELSE /\ futs' = Append(futs, NewFuture(t, "wait"))
          /\ ewaiters' = Append(ewaiters, Len(futs) + 1)
          /\ tfut' = [tfut EXCEPT ![t] = Len(futs) + 1]
          /\ pc' = [pc EXCEPT ![t] = "wait"]
          /\ EndAdvance
  /\ UNCHANGED <<running, to_add, to_delete, phase, tickNo, evalue, waitRet, joinVars,
                 status, result, titem, callbacks, lockVars, queueVars, obsVars>>

\* next(task) on a task parked in Event.wait (lines 96-100); wait returns True
ResumeWait(t) ==
  /\ AtTask(t) /\ pc[t] = "wait"
  /\ IF FutureDone(futs, tfut[t])
     THEN /\ ewaiters' = RemoveFirst(ewaiters, tfut[t])
          /\ err' = IF Contains(ewaiters, tfut[t]) THEN err ELSE err \cup {"ValueError"}
          /\ waitRet' = waitRet \cup {[task |-> t, setAt |-> futs[tfut[t]].at,
                                       late |-> futs[tfut[t]].late,
                                       by |-> futs[tfut[t]].by,
                                       retAt |-> tickNo, val |-> TRUE]}
          /\ cur' = t
          /\ pc' = [pc EXCEPT ![t] = "run"]
          /\ UNCHANGED idx
     ELSE /\ idx' = idx + 1
          /\ UNCHANGED <<ewaiters, err, waitRet, cur, pc>>
  /\ UNCHANGED <<running, to_add, to_delete, phase, tickNo, evalue, joinVars,
                 status, result, tfut, titem, callbacks, futs,
                 lockVars, queueVars, nops, runVars, extVars, cbLog, admTick, firstAdv, delivered>>

\* Event.set
EventSet(t) ==
  /\ cur = t /\ nops < limit
  /\ nops' = nops + 1 /\ UNCHANGED <<runVars, extVars>>
  /\ IF evalue
     THEN UNCHANGED <<evalue, futs>>
     ELSE /\ evalue' = TRUE
          /\ futs' = EventSetAll(ewaiters, futs)
  /\ UNCHANGED <<loopVars, taskVars, ewaiters, waitRet, joinVars, lockVars, queueVars,
                 obsVars>>

\* Event.clear
EventClear(t) ==
  /\ cur = t /\ nops < limit
  /\ nops' = nops + 1 /\ UNCHANGED <<runVars, extVars>>
  /\ evalue' = FALSE
  /\ UNCHANGED <<loopVars, taskVars, futs, ewaiters, waitRet, joinVars, lockVars,
                 queueVars, obsVars>>

\* Task.cacnel on a task parked in Event.wait: the finally of lines 99-100
CancelWait(u) ==
  /\ Active /\ cur # u /\ nops < limit
  /\ pc[u] = "wait"
  /\ nops' = nops + 1 /\ UNCHANGED <<runVars, extVars>>
  /\ status' = [status EXCEPT ![u] = "cancelled"]
  /\ delivered' = delivered \cup {u}
  /\ pc' = [pc EXCEPT ![u] = "closed"]
  /\ ewaiters' = RemoveFirst(ewaiters, tfut[u])
  /\ err' = IF Contains(ewaiters, tfut[u]) THEN err ELSE err \cup {"ValueError"}
  /\ UNCHANGED <<loopVars, result, tfut, titem, callbacks, futs, evalue, waitRet, joinVars,
                 lockVars, queueVars, cbLog, admTick, firstAdv>>

----------------------------------------------------------------------------
\* Queue (queue.py)

\* Queue._wakeup_next: pops waiters off the head until one is not done
RECURSIVE QueueWakeupNext(_, _)
QueueWakeupLast(w, fs) ==
  IF w = <<>> THEN [w |-> w, fs |-> fs]
  ELSE IF ~FutureDone(fs, w[Len(w)])
       THEN [w |-> SubSeq(w, 1, Len(w) - 1), fs |-> SetResult(fs, w[Len(w)], "None")]
       ELSE [w |-> SubSeq(w, 1, Len(w) - 1), fs |-> fs]
QueueWakeupNone(w, fs) == [w |-> w, fs |-> fs]
QueueWakeupNext(w, fs) ==
  IF w = <<>> THEN [w |-> w, fs |-> fs]
  ELSE IF ~FutureDone(fs, Head(w))
       THEN [w |-> Tail(w), fs |-> SetResult(fs, Head(w), "None")]
       ELSE QueueWakeupNext(Tail(w), fs)

\* Queue.empty
Empty == queue = <<>>

\* Queue.full
FullOffByOne == IF maxsize <= 0 THEN FALSE ELSE Len(queue) > maxsize
Full == IF maxsize <= 0 THEN FALSE ELSE Len(queue) >= maxsize

\* Queue.get_nowait line 73: popleft
PopRight(q) == [item |-> q[Len(q)], rest |-> SubSeq(q, 1, Len(q) - 1)]
PopLeft(q) == [item |-> Head(q), rest |-> Tail(q)]

\* Queue.put_nowait lines 65-68 (the queue is not full)
DoPutNowait(item) ==
  LET r == QueueWakeupNext(getters, futs)
  IN /\ queue' = Append(queue, item)
     /\ unfinished' = unfinished + 1
     /\ finished' = FALSE
     /\ getters' = r.w
     /\ futs' = r.fs
     /\ putSeq' = Append(putSeq, item)
     /\ nEnq' = nEnq + 1

\* Queue.get_nowait lines 73-75 (the queue is not empty); the caller keeps the item
DoGetNowait(t) ==
  LET r == QueueWakeupNext(putters, futs)
      p == PopLeft(queue)
  IN /\ queue' = p.rest
     /\ putters' = r.w
     /\ futs' = r.fs
     /\ getSeq' = Append(getSeq, p.item)
     /\ titem' = [titem EXCEPT ![t] = p.item]

\* Queue.put_nowait called by a task; on a full queue it raises and changes nothing
PutNowait(t) ==
  /\ cur = t /\ nops < limit
  /\ nops' = nops + 1 /\ UNCHANGED <<runVars, retval, nset, gatherVars, awaitVars, drvVars>>
  /\ IF Full
     THEN /\ raised' = Append(raised, "QueueFull")
          /\ UNCHANGED <<queue, unfinished, finished, getters, futs, putSeq, nEnq, nitems>>
     ELSE /\ DoPutNowait(nitems + 1)
          /\ nitems' = nitems + 1
          /\ UNCHANGED raised
  /\ UNCHANGED <<loopVars, taskVars, lockVars, eventVars, maxsize, putters, getSeq,
                 nDone, waitGet, waitPut, obsVars>>

\* Queue.get_nowait called by a task; on an empty queue it raises and changes nothing
GetNowait(t) ==
  /\ cur = t /\ nops < limit
  /\ nops' = nops + 1 /\ UNCHANGED <<runVars, retval, nset, gatherVars, awaitVars, drvVars>>
  /\ IF Empty
     THEN /\ raised' = Append(raised, "QueueEmpty")
          /\ UNCHANGED <<queue, putters, futs, getSeq, titem>>
     ELSE DoGetNowait(t) /\ UNCHANGED raised
  /\ UNCHANGED <<loopVars, status, pc, result, tfut, callbacks, lockVars, eventVars, maxsize, getters, unfinished,
                 finished, putSeq, nEnq, nDone, waitGet, waitPut, nitems, obsVars>>

\* Queue.put up to its first pause; the items are numbered in the order of the calls
Put(t) ==
  /\ cur = t /\ nops < limit
  /\ nops' = nops + 1 /\ UNCHANGED <<runVars, extVars>>
  /\ nitems' = nitems + 1
  /\ IF Full
     THEN /\ futs' = Append(futs, NewFuture(t, "put"))
          /\ putters' = Append(putters, Len(futs) + 1)
          /\ tfut' = [tfut EXCEPT ![t] = Len(futs) + 1]
          /\ titem' = [titem EXCEPT ![t] = nitems + 1]
          /\ pc' = [pc EXCEPT ![t] = "put"]
          /\ waitPut' = Append(waitPut, t)
          /\ EndAdvance
          /\ UNCHANGED <<queue, unfinished, finished, getters, putSeq, nEnq>>
     ELSE /\ DoPutNowait(nitems + 1)
          /\ UNCHANGED <<putters, tfut, titem, pc, waitPut, idx, cur>>
  /\ UNCHANGED <<running, to_add, to_delete, phase, tickNo,
                 status, result, callbacks, lockVars, eventVars,
                 maxsize, getSeq, nDone, waitGet, obsVars>>

\* next(task) on a task parked in Queue.put: when its Future is done the while
\* loop of line 78 tests full() again
ResumePut(t) ==
  /\ AtTask(t) /\ pc[t] = "put"
  /\ IF ~FutureDone(futs, tfut[t])
     THEN /\ idx' = idx + 1
          /\ UNCHANGED <<cur, pc, tfut, futs, putters, waitPut,
                         queue, unfinished, finished, getters, putSeq, nEnq>>
     ELSE IF Full
     THEN /\ futs' = Append(futs, NewFuture(t, "put"))
          /\ putters' = Append(putters, Len(futs) + 1)
          /\ tfut' = [tfut EXCEPT ![t] = Len(futs) + 1]
          /\ idx' = idx + 1
          /\ UNCHANGED <<cur, pc, waitPut,
                         queue, unfinished, finished, getters, putSeq, nEnq>>
     ELSE /\ DoPutNowait(titem[t])
          /\ cur' = t
          /\ pc' = [pc EXCEPT ![t] = "run"]
          /\ waitPut' = RemoveFirst(waitPut, t)
          /\ UNCHANGED <<putters, tfut, idx>>
  /\ UNCHANGED <<running, to_add, to_delete, phase, tickNo,
                 status, result, titem, callbacks, lockVars, eventVars,
                 maxsize, getSeq, nDone, waitGet, nitems, nops, runVars, extVars, obsVars>>

\* Queue.get up to its first pause
Get(t) ==
  /\ cur = t /\ nops < limit
  /\ nops' = nops + 1 /\ UNCHANGED <<runVars, extVars>>
  /\ IF Empty
     THEN /\ futs' = Append(futs, NewFuture(t, "get"))
          /\ getters' = Append(getters, Len(futs) + 1)
          /\ tfut' = [tfut EXCEPT ![t] = Len(futs) + 1]
          /\ pc' = [pc EXCEPT ![t] = "get"]
          /\ waitGet' = Append(waitGet, t)
          /\ EndAdvance
          /\ UNCHANGED <<queue, putters, getSeq, titem>>
     ELSE /\ DoGetNowait(t)
          /\ UNCHANGED <<getters, tfut, pc, waitGet, idx, cur>>
  /\ UNCHANGED <<running, to_add, to_delete, phase, tickNo,
                 status, result, callbacks, lockVars, eventVars,
                 maxsize, unfinished, finished, putSeq, nEnq, nDone, waitPut, nitems,
                 obsVars>>

\* next(task) on a task parked in Queue.get: when its Future is done the while
\* loop of line 100 tests empty() again
ResumeGet(t) ==
  /\ AtTask(t) /\ pc[t] = "get"
  /\ IF ~FutureDone(futs, tfut[t])
     THEN /\ idx' = idx + 1
          /\ UNCHANGED <<cur, pc, tfut, futs, getters, waitGet, queue, putters, getSeq,
                         titem>>
     ELSE IF Empty
     THEN /\ futs' = Append(futs, NewFuture(t, "get"))
          /\ getters' = Append(getters, Len(futs) + 1)
          /\ tfut' = [tfut EXCEPT ![t] = Len(futs) + 1]
          /\ idx' = idx + 1
          /\ UNCHANGED <<cur, pc, waitGet, queue, putters, getSeq, titem>>
     ELSE /\ DoGetNowait(t)
          /\ cur' = t
          /\ pc' = [pc EXCEPT ![t] = "run"]
          /\ waitGet' = RemoveFirst(waitGet, t)
          /\ UNCHANGED <<getters, tfut, idx>>
  /\ UNCHANGED <<running, to_add, to_delete, phase, tickNo,
                 status, result, callbacks, lockVars, eventVars,
                 maxsize, unfinished, finished, putSeq, nEnq, nDone, waitPut, nitems,
                 nops, runVars, extVars, obsVars>>

\* Queue.task_done line 126: self._finished.set() (Event.set on _finished)
FinishedSetSkipped(w, fs) == fs
FinishedSet(w, fs) == IF finished THEN fs ELSE EventSetAll(w, fs)

\* Queue.task_done; with no unfinished task it raises and changes nothing
TaskDoneUnchecked == TRUE
TaskDoneAllowed == unfinished > 0

TaskDone(t) ==
  /\ cur = t /\ nops < limit
  /\ nops' = nops + 1 /\ UNCHANGED <<runVars, retval, nset, gatherVars, awaitVars, drvVars>>
  /\ IF TaskDoneAllowed
     THEN /\ unfinished' = unfinished - 1
          /\ finished' = IF unfinished - 1 = 0 THEN TRUE ELSE finished
          /\ futs' = IF unfinished - 1 = 0 THEN FinishedSet(fwaiters, futs) ELSE futs
          /\ zeros' = IF unfinished - 1 = 0 THEN zeros + 1 ELSE zeros
          /\ nDone' = nDone + 1
          /\ UNCHANGED raised
     ELSE /\ raised' = Append(raised, "TaskDoneUnderflow")
          /\ UNCHANGED <<unfinished, finished, nDone, futs, zeros>>
  /\ UNCHANGED <<loopVars, taskVars, lockVars, evalue, ewaiters, waitRet,
                 fwaiters, joinAt, joinRet, maxsize, queue,
                 getters, putters, putSeq, getSeq, nEnq, waitGet, waitPut, nitems,
                 obsVars>>

\* Queue.join up to its first pause: with unfinished tasks it waits on _finished
Join(t) ==
  /\ cur = t /\ nops < limit
  /\ nops' = nops + 1 /\ UNCHANGED <<runVars, extVars>>
  /\ joinAt' = [joinAt EXCEPT ![t] = [unf |-> unfinished, zeros |-> zeros]]
  /\ IF unfinished > 0 /\ ~finished
     THEN /\ futs' = Append(futs, NewFuture(t, "join"))
          /\ fwaiters' = Append(fwaiters, Len(futs) + 1)
          /\ tfut' = [tfut EXCEPT ![t] = Len(futs) + 1]
          /\ pc' = [pc EXCEPT ![t] = "join"]
          /\ EndAdvance
          /\ UNCHANGED joinRet
     ELSE /\ joinRet' = joinRet \cup {[task |-> t, unf |-> unfinished, paused |-> FALSE,
                                       zeros0 |-> zeros, zeros1 |-> zeros,
                                       unfRet |-> unfinished]}
          /\ UNCHANGED <<fwaiters, futs, tfut, pc, idx, cur>>
  /\ UNCHANGED <<running, to_add, to_delete, phase, tickNo, evalue, ewaiters, waitRet,
                 zeros, status, result, titem, callbacks, lockVars, queueVars, obsVars>>

\* next(task) on a task parked in Queue.join, that is in _finished.wait()
\* (sync.py:96-100)
ResumeJoin(t) ==
  /\ AtTask(t) /\ pc[t] = "join"
  /\ IF FutureDone(futs, tfut[t])
     THEN /\ fwaiters' = RemoveFirst(fwaiters, tfut[t])
          /\ err' = IF Contains(fwaiters, tfut[t]) THEN err ELSE err \cup {"ValueError"}
          /\ joinRet' = joinRet \cup {[task |-> t, unf |-> joinAt[t].unf, paused |-> TRUE,
                                       zeros0 |-> joinAt[t].zeros, zeros1 |-> zeros,
                                       unfRet |-> unfinished]}
          /\ cur' = t
          /\ pc' = [pc EXCEPT ![t] = "run"]
          /\ UNCHANGED idx
     ELSE /\ idx' = idx + 1
          /\ UNCHANGED <<fwaiters, err, joinRet, cur, pc>>
  /\ UNCHANGED <<running, to_add, to_delete, phase, tickNo, evalue, ewaiters, waitRet,
                 zeros, joinAt, status, result, tfut, titem, callbacks, futs,
                 lockVars, queueVars, nops, runVars, extVars, cbLog, admTick, firstAdv, delivered>>

\* GenCancelledError is caught by "except Exception" (queue.py:83)
CancelIsException == TRUE

\* Queue.get lines 114-117 and Queue.put lines 92-95: the cancelled waiter
\* wakes the next one when there is something to take (room to put)
QueueNoPassOn(avail, w, fs) == [w |-> w, fs |-> fs]
QueuePassOn(avail, w, fs) ==
  IF avail /\ w # <<>> THEN QueueWakeupNext(w, fs) ELSE [w |-> w, fs |-> fs]

\* Task.cacnel on a task parked in Queue.get: the handler of lines 105-118
CancelGet(u) ==
  /\ Active /\ cur # u /\ nops < limit
  /\ pc[u] = "get"
  /\ nops' = nops + 1 /\ UNCHANGED <<runVars, extVars>>
  /\ status' = [status EXCEPT ![u] = "cancelled"]
  /\ delivered' = delivered \cup {u}
  /\ pc' = [pc EXCEPT ![u] = "closed"]
  /\ waitGet' = RemoveFirst(waitGet, u)
  /\ LET fs1 == SetResult(futs, tfut[u], "None")
         g1 == RemoveFirst(getters, tfut[u])
         r == QueuePassOn(~Empty, g1, fs1)
     IN /\ getters' = r.w
        /\ futs' = r.fs
  /\ UNCHANGED <<loopVars, result, tfut, titem, callbacks, lockVars, eventVars,
                 maxsize, queue, putters, unfinished, finished, putSeq, getSeq,
                 nEnq, nDone, waitPut, nitems, cbLog, admTick, firstAdv, err>>

\* Task.cacnel on a task parked in Queue.put: the handler of lines 83-96
CancelPut(u) ==
  /\ Active /\ cur # u /\ nops < limit
  /\ pc[u] = "put"
  /\ nops' = nops + 1 /\ UNCHANGED <<runVars, extVars>>
  /\ status' = [status EXCEPT ![u] = "cancelled"]
  /\ delivered' = delivered \cup {u}
  /\ pc' = [pc EXCEPT ![u] = "closed"]
  /\ waitPut' = RemoveFirst(waitPut, u)
  /\ LET fs1 == SetResult(futs, tfut[u], "None")
         p1 == RemoveFirst(putters, tfut[u])
         r == IF ~CancelIsException THEN [w |-> putters, fs |-> futs]
              ELSE QueuePassOn(~Full, p1, fs1)
     IN /\ putters' = r.w
        /\ futs' = r.fs
  /\ UNCHANGED <<loopVars, result, tfut, titem, callbacks, lockVars, eventVars,
                 maxsize, queue, getters, unfinished, finished, putSeq, getSeq,
                 nEnq, nDone, waitGet, nitems, cbLog, admTick, firstAdv, err>>

----------------------------------------------------------------------------
\* the loop driven from outside: tasks are created between ticks
DriverSpawn(u) == phase = "idle" /\ Spawn(u) /\ UNCHANGED <<nops, drvVars>>

\* a running task calls loop.create_task
TaskSpawn(u) ==
  cur # None /\ nops < limit /\ Spawn(u) /\ nops' = nops + 1 /\ UNCHANGED drvVars

\* Without cancellation and re-admission a task that has returned leaves running
\* in the tick of its return, so next() never meets a closed generator.
LoopNextNC ==
  \/ TickBegin
  \/ TickEnd
  \/ \E t \in Tasks : DriverSpawn(t) \/ ResumePlain(t) \/ Yield(t) \/ Return(t)

LoopNext ==
  \/ LoopNextNC
  \/ \E t \in Tasks : ResumeClosed(t)

NextLock ==
  \/ LoopNext
  \/ \E t \in Tasks : Acquire(t) \/ ResumeAcq(t) \/ Release(t) \/ CancelAcq(t)

SpecLock == Init /\ [][NextLock]_vars

\* The lock without cancellation.
NextLockNC ==
  \/ LoopNextNC
  \/ \E t \in Tasks : Acquire(t) \/ ResumeAcq(t) \/ Release(t)

SpecLockNC == Init /\ [][NextLockNC]_vars

\* The lock used through the with statement as well.
NextScope ==
  \/ NextLockNC
  \/ \E t \in Tasks : ScopeEnter(t) \/ ScopeExit(t)

SpecScope == Init /\ [][NextScope]_vars

NextEvent ==
  \/ LoopNext
  \/ \E t \in Tasks : Wait(t) \/ ResumeWait(t) \/ EventSet(t) \/ EventClear(t)
                       \/ CancelWait(t)

SpecEvent == Init /\ [][NextEvent]_vars

\* The queue without cancellation.
NextQueueNC ==
  \/ LoopNextNC
  \/ \E t \in Tasks : Put(t) \/ ResumePut(t) \/ Get(t) \/ ResumeGet(t)
                       \/ PutNowait(t) \/ GetNowait(t) \/ TaskDone(t)

NextQueue ==
  \/ NextQueueNC
  \/ \E t \in Tasks : ResumeClosed(t)
  \/ \E t \in Tasks : CancelGet(t) \/ CancelPut(t)

SpecQueue == InitQueue /\ [][NextQueue]_vars

SpecQueueNC == InitQueueNC /\ [][NextQueueNC]_vars

\* Producer and consumer on a bounded queue, Queue(maxsize=1) as in scenario S4
\* and every other small bound: one task puts the items 1..target, the other
\* gets target items and pauses between its gets; the driver creates the two
\* tasks in either order and then keeps ticking.
\* the consumer gets one item per tick, from its second tick at the latest
MaxItems == MaxTicks - 1

InitProdCons ==
  /\ InitState /\ maxsize \in 1..MaxSize /\ limit = 2 * MaxItems /\ prim = "queue"
  /\ producer \in {1, 2} /\ consumer = 3 - producer
  /\ target \in 0..MaxItems /\ pauses = 0

ProgSpawn(u) == u \in {producer, consumer} /\ DriverSpawn(u)

ProgTick ==
  status[producer] # "unborn" /\ status[consumer] # "unborn" /\ TickBegin

ProducerPut(t) == t = producer /\ nitems < target /\ Put(t)

ProducerReturn(t) == t = producer /\ nitems = target /\ Return(t)

ConsumerGet(t) ==
  t = consumer /\ Len(getSeq) < target /\ pauses = Len(getSeq) /\ Get(t)

\* the bare yield between two gets
ConsumerYield(t) ==
  /\ t = consumer /\ cur = t
  /\ 0 < Len(getSeq) /\ Len(getSeq) < target /\ pauses < Len(getSeq)
  /\ pauses' = pauses + 1
  /\ pc' = [pc EXCEPT ![t] = "idle"]
  /\ EndAdvance
  /\ UNCHANGED <<running, to_add, to_delete, phase, tickNo,
                 status, result, tfut, titem, callbacks,
                 futs, lockVars, eventVars, queueVars, nops, limit, prim,
                 producer, consumer, target, extVars, obsVars>>

ConsumerReturn(t) == t = consumer /\ Len(getSeq) = target /\ Return(t)

NextProdCons ==
  \/ ProgTick
  \/ TickEnd
  \/ \E t \in Tasks : ProgSpawn(t) \/ ResumePlain(t) \/ ResumePut(t) \/ ResumeGet(t)
  \/ \E t \in Tasks : ProducerPut(t) \/ ProducerReturn(t)
  \/ \E t \in Tasks : ConsumerGet(t) \/ ConsumerYield(t) \/ ConsumerReturn(t)

SpecProdCons == InitProdCons /\ [][NextProdCons]_vars

\* The driver keeps calling tick() and tick() runs its sweep to the end: a step
\* that can be taken is taken.
LiveProdCons == SpecProdCons /\ WF_vars(NextProdCons)

\* Queue.join with put_nowait and task_done, on an unbounded queue.
InitJoin == InitCommon /\ maxsize = 0 /\ limit = MaxQueueOps /\ prim = "any"

NextJoin ==
  \/ LoopNextNC
  \/ \E t \in Tasks : PutNowait(t) \/ TaskDone(t) \/ Join(t) \/ ResumeJoin(t)

SpecJoin == InitJoin /\ [][NextJoin]_vars

\* The driver keeps calling tick() and tick() runs its sweep to the end.
LiveJoin == SpecJoin /\ WF_vars(NextJoin)

\* The loop alone: tasks that yield and return, create tasks, pass a Task to
\* create_task again, register done-callbacks and cancel each other.
NextLoop ==
  \/ LoopNext
  \/ \E t \in Tasks : TaskSpawn(t) \/ Readmit(t) \/ CancelPlain(t)
  \/ \E t \in Tasks, k \in {"note", "spawn"} : AddDoneCallback(t, k)

SpecLoop == InitLoop /\ [][NextLoop]_vars

\* Cancellation of tasks that are not parked on a primitive: the coroutine
\* lets the error propagate or swallows it.
NextCancelPlain ==
  \/ LoopNext
  \/ \E t \in Tasks : CancelPlain(t) \/ CancelSwallow(t)

SpecCancelPlain == InitLoop /\ [][NextCancelPlain]_vars

\* Coroutines that fail: the caller of tick() catches the error and goes on.
NextFail ==
  \/ LoopNext
  \/ \E t \in Tasks : Raise(t)
  \/ \E t \in Tasks, k \in {"note", "spawn"} : AddDoneCallback(t, k)

SpecFail == InitLoop /\ [][NextFail]_vars

----------------------------------------------------------------------------
\* gather (utils.py:19-36)

\* the argument lists of a gather call by task a: distinct Tasks or coroutines
GatherArgs(a) ==
  {args \in UNION {[1..n -> Tasks \ {a}] : n \in 1..MaxGather} :
     \A i, j \in DOMAIN args : i # j => args[i] # args[j]}

\* lines 28-31: one pass of "for task in tasks" with tasks.remove(task) in its
\* body; i is the position the list iterator reads next.
RECURSIVE GatherPoll(_, _, _)
GatherPoll(ts, res, i) ==
  IF i > Len(ts) THEN [tasks |-> ts, results |-> res]
  ELSE IF Done(ts[i])
       THEN GatherPoll(RemoveFirst(ts, ts[i]), [res EXCEPT ![ts[i]] = result[ts[i]]], i + 1)
       ELSE GatherPoll(ts, res, i + 1)

\* line 36: tuple(results[id] for id in ordered_ids)
GatherTuple(ids, res) == [i \in 1..Len(ids) |-> res[ids[i]]]

\* gather(*args) up to its first yield: create_task for every argument (a new
\* Task for a coroutine, the Task itself otherwise), one pass, yield.
Gather(a, args) ==
  /\ cur = a /\ nops < limit /\ a \notin holders
  /\ gout[a] = <<>> /\ gids[a] = <<>>
  /\ LET new == {args[i] : i \in DOMAIN args} \cap Unborn
         polled == GatherPoll(args, [u \in Tasks |-> Missing], 1)
     IN /\ status' = [t \in Tasks |-> IF t \in new THEN "pending" ELSE status[t]]
        /\ pc' = [t \in Tasks |-> IF t \in new THEN "new"
                                   ELSE IF t = a THEN "gather" ELSE pc[t]]
        /\ admTick' = [t \in Tasks |-> IF t \in new
                                        THEN [tick |-> tickNo, by |-> "task"]
                                        ELSE admTick[t]]
        /\ to_add' = to_add \o args
        /\ gids' = [gids EXCEPT ![a] = args]
        /\ gtasks' = [gtasks EXCEPT ![a] = polled.tasks]
        /\ gres' = [gres EXCEPT ![a] = polled.results]
  /\ EndAdvance
  /\ nops' = nops + 1
  /\ UNCHANGED <<running, to_delete, phase, tickNo, result, tfut, titem, callbacks,
                 futs, lockVars, eventVars, queueVars, runVars,
                 cbLog, firstAdv, err, delivered, histVars, gout, awaitVars, drvVars>>

\* next(task) on a task suspended at gather's yield (lines 27-36)
ResumeGather(a) ==
  /\ AtTask(a) /\ pc[a] = "gather"
  /\ IF gtasks[a] = <<>>
     THEN /\ gout' = [gout EXCEPT ![a] = GatherTuple(gids[a], gres[a])]
          /\ cur' = a
          /\ pc' = [pc EXCEPT ![a] = "run"]
          /\ UNCHANGED <<idx, gtasks, gres>>
     ELSE /\ LET polled == GatherPoll(gtasks[a], gres[a], 1)
             IN /\ gtasks' = [gtasks EXCEPT ![a] = polled.tasks]
                /\ gres' = [gres EXCEPT ![a] = polled.results]
          /\ EndAdvance
          /\ UNCHANGED <<pc, gout>>
  /\ UNCHANGED <<running, to_add, to_delete, phase, tickNo, status, result, tfut,
                 titem, callbacks, futs, lockVars, eventVars, queueVars, nops, runVars,
                 obsVars, histVars, gids, awaitVars, drvVars>>

\* Tasks that call gather on coroutines and on Tasks created before.
NextGather ==
  \/ LoopNext
  \/ \E a \in Tasks : ResumeGather(a) \/ \E args \in GatherArgs(a) : Gather(a, args)

SpecGather == InitLoop /\ [][NextGather]_vars

----------------------------------------------------------------------------
\* yield from Task (task.py:19-23): Task.__iter__ returns the Task itself, and
\* Task.__next__ is next(self.gen), so every step of the delegation resumes
\* the generator of the awaited Task from the awaiting task.

\* one next(t) issued by a: t's coroutine yields (a stays suspended at the
\* yield from), or returns (StopIteration carries the value to a), or has
\* ended before (StopIteration without a value).
AwaitStep(a, t, returns) ==
  /\ pc[t] \in {"new", "idle", "closed"}
  /\ awaited' = [awaited EXCEPT ![a] = t]
  /\ IF pc[t] = "closed"
     THEN /\ recv' = [recv EXCEPT ![a] = <<None>>]
          /\ pc' = [pc EXCEPT ![a] = "run"]
          /\ cur' = a
          /\ UNCHANGED <<idx, retval, advBy>>
     ELSE /\ advBy' = advBy \cup {t}
          /\ IF returns
             THEN /\ retval' = [retval EXCEPT ![t] = t]
                  /\ recv' = [recv EXCEPT ![a] = <<t>>]
                  /\ pc' = [pc EXCEPT ![t] = "closed", ![a] = "run"]
                  /\ cur' = a
                  /\ UNCHANGED idx
             ELSE /\ pc' = [pc EXCEPT ![t] = "idle", ![a] = "await"]
                  /\ EndAdvance
                  /\ UNCHANGED <<retval, recv>>

\* the running task executes "yield from t" on a Task created with create_task
Await(a, t, returns) ==
  /\ cur = a /\ a # t /\ nops < limit /\ a \notin holders
  /\ status[t] # "unborn" /\ recv[a] = <<>>
  /\ AwaitStep(a, t, returns)
  /\ nops' = nops + 1
  /\ UNCHANGED <<running, to_add, to_delete, phase, tickNo, status, result, tfut,
                 titem, callbacks, futs, lockVars, eventVars, queueVars, runVars,
                 obsVars, nset, raised, gatherVars, drvVars>>

\* next(task) on a task suspended inside "yield from t"
ResumeAwait(a, returns) ==
  /\ AtTask(a) /\ pc[a] = "await"
  /\ AwaitStep(a, awaited[a], returns)
  /\ UNCHANGED <<running, to_add, to_delete, phase, tickNo, status, result, tfut,
                 titem, callbacks, futs, lockVars, eventVars, queueVars, nops, runVars,
                 obsVars, nset, raised, gatherVars, drvVars>>

\* Tasks that await Tasks.
NextAwait ==
  \/ LoopNext
  \/ \E a \in Tasks : TaskSpawn(a)
  \/ \E a, t \in Tasks, returns \in BOOLEAN : Await(a, t, returns)
  \/ \E a \in Tasks, returns \in BOOLEAN : ResumeAwait(a, returns)

SpecAwait == InitLoop /\ [][NextAwait]_vars

\* Tasks and done-callbacks that create tasks, each Task admitted once.
NextStaging ==
  \/ LoopNextNC
  \/ \E t \in Tasks : TaskSpawn(t)
  \/ \E t \in Tasks, k \in {"note", "spawn"} : AddDoneCallback(t, k)

SpecStaging == InitLoop /\ [][NextStaging]_vars

\* Calls on a primitive in the wrong state, among calls in the right state.
QueueMisuseStep ==
  prim = "queue" /\ \E t \in Tasks : Put(t) \/ ResumePut(t) \/ Get(t) \/ ResumeGet(t)
                                        \/ PutNowait(t) \/ GetNowait(t) \/ TaskDone(t)
LockMisuseStep ==
  prim = "lock" /\ \E t \in Tasks : Acquire(t) \/ ResumeAcq(t) \/ Release(t)
                                       \/ ReleaseFree(t)
NextMisuse ==
  \/ LoopNextNC
  \/ QueueMisuseStep
  \/ LockMisuseStep

SpecMisuse == InitMisuse /\ [][NextMisuse]_vars

\* Loop.run_until_complete: tasks created before the call, the root task, and
\* the tasks these create; the loop is ticked by run_until_complete only.
NextRun ==
  \/ \E t \in Tasks : ruc = "none" /\ DriverSpawn(t)
  \/ \E t \in Tasks : RunUntilComplete(t)
  \/ RucTick
  \/ CancelAll
  \/ RucReturn
  \/ TickEnd
  \/ \E t \in Tasks : ResumePlain(t) \/ Yield(t) \/ Return(t) \/ TaskSpawn(t)

SpecRun == InitLoop /\ [][NextRun]_vars

\* All four primitives, with cancellation of parked tasks.
LockStep ==
  prim = "lock" /\ \E t \in Tasks : Acquire(t) \/ ResumeAcq(t) \/ Release(t) \/ CancelAcq(t)

EventStep ==
  prim = "event" /\ \E t \in Tasks : Wait(t) \/ ResumeWait(t) \/ EventSet(t) \/ CancelWait(t)

QueueStep ==
  prim = "queue" /\ \E t \in Tasks : Put(t) \/ ResumePut(t) \/ Get(t) \/ ResumeGet(t)
                                        \/ PutNowait(t) \/ GetNowait(t)
                                        \/ CancelGet(t) \/ CancelPut(t)

NextCancel == LoopNext \/ LockStep \/ EventStep \/ QueueStep

SpecCancel == InitCancel /\ [][NextCancel]_vars

----------------------------------------------------------------------------
\* C1: at most one task is between the return of its acquire() and its
\* release(), under every order of advances and with cancellation delivered to
\* parked waiters at any pause; while a task is there the lock is locked.
LockMutualExclusion ==
  /\ Cardinality(holders) <= 1
  /\ holders # {} => locked

\* a waiter was cancelled while parked, and the lock is held with a waiter parked
LockContendedAfterCancel ==
  /\ \E f \in DOMAIN futs : futs[f].kind = "acq" /\ status[futs[f].owner] = "cancelled"
  /\ Cardinality(holders) = 1
  /\ lwaiters # <<>>
  /\ Len(enterOrder) >= 2

\* C2: without cancellation, tasks enter the critical section in the order in
\* which they called acquire(): the sequence of entries is a prefix of the
\* sequence of calls.
LockFifo == IsPrefix(enterOrder, acqOrder)

\* a task released and called acquire() again in the same advance, parked behind
\* an older waiter, and has now entered after that waiter
LockReacquireServed ==
  \E f \in DOMAIN futs :
    /\ futs[f].kind = "acq" /\ futs[f].re
    /\ futs[f].owner \in holders
    /\ Len(enterOrder) >= 3
    /\ enterOrder[Len(enterOrder)] = futs[f].owner
    /\ enterOrder[Len(enterOrder) - 1] # futs[f].owner

----------------------------------------------------------------------------
\* C3: the items returned by get/get_nowait, in the order they return, followed
\* by the items still queued are exactly the items accepted by put/put_nowait in
\* the order they were enqueued: nothing is lost, duplicated or reordered.
QueueItemOrder == putSeq = getSeq \o queue

\* two items were returned, one of them to a getter that had parked
QueueItemsDelivered ==
  /\ Len(getSeq) >= 2
  /\ \E f \in DOMAIN futs : futs[f].kind = "get" /\ futs[f].sets > 0
                            /\ pc[futs[f].owner] # "get"

\* C4 as claimed: of the getters that parked and were not cancelled, the one
\* that parked first returns first: a task whose first queue operation is a
\* get() that parked returns from it only as the oldest of the parked getters.
QueueWaiterReturnFifo ==
  [][\A r \in Tasks :
       Contains(waitGet, r) /\ ~Contains(waitGet', r) /\ titem[r] = 0
       => r = Head(waitGet)]_vars

\* C4 as the code has it: parked getters (putters) are woken in the order in
\* which they parked: when a waiter Future is resolved, no older Future of the
\* same deque is still unresolved.
QueueWakeFifo ==
  [][\A f \in DOMAIN futs :
       futs[f].sets = 0 /\ futs'[f].sets > 0
       => \A g \in 1..(f - 1) : futs[g].kind = futs[f].kind => futs[g].sets > 0]_vars

\* two getters of different tasks parked; the older was woken, the younger is
\* still parked
QueueOlderGetterWoken ==
  \E f, g \in DOMAIN futs :
    /\ f < g
    /\ futs[f].kind = "get" /\ futs[g].kind = "get"
    /\ futs[f].owner # futs[g].owner
    /\ futs[f].sets > 0 /\ futs[g].sets = 0
    /\ Contains(getters, g)

\* C5: a bounded queue never holds more than maxsize items, and the item of a
\* put() parked on the full queue is not enqueued while the put is parked.
QueueCapacity ==
  /\ maxsize > 0 => Len(queue) <= maxsize
  /\ \A t \in Tasks : pc[t] = "put" => ~Contains(putSeq, titem[t])

\* a put() parked on the full queue, a get freed a slot, and the put enqueued
QueueParkedPutCompleted ==
  \E f \in DOMAIN futs :
    /\ futs[f].kind = "put" /\ futs[f].sets > 0
    /\ maxsize > 0
    /\ pc[futs[f].owner] # "put"
    /\ Contains(putSeq, titem[futs[f].owner])
    /\ getSeq # <<>>

\* C6: unfinished_tasks is the number of enqueues minus the number of
\* task_done calls that succeeded, never negative, and the finished event is
\* set exactly when it is 0.
QueueAccounting ==
  /\ unfinished = nEnq - nDone
  /\ unfinished >= 0
  /\ finished <=> unfinished = 0

\* items were enqueued and all of them marked done, after which one more was
\* enqueued
QueueAllDoneThenPut ==
  /\ nDone >= 1 /\ nEnq = nDone + 1 /\ unfinished = 1 /\ ~finished

----------------------------------------------------------------------------
\* C7 as claimed: when two tasks are parked in Event.wait() and a task that the
\* loop advances after them (it was admitted after them) calls set() after it
\* has yielded, both waiters return from wait() in the tick of the set, with True.
EventWakeSameTick ==
  \A r1, r2 \in waitRet :
    ( /\ r1.task # r2.task
      /\ r1.late /\ r2.late
      /\ r1.setAt = r2.setAt /\ r1.by = r2.by
      /\ firstAdv[r1.by] < r1.setAt )
    => r1.val /\ r2.val /\ r1.retAt = r1.setAt /\ r2.retAt = r2.setAt

\* C7 as the code has it: set() resolves the Future of every parked waiter at
\* once; a waiter advanced before the setter returns True from wait() in the
\* tick after the set, the same tick for all such waiters.
EventBroadcast ==
  /\ evalue => \A i \in 1..Len(ewaiters) : FutureDone(futs, ewaiters[i])
  /\ \A r \in waitRet : r.val /\ (r.late => r.retAt = r.setAt + 1)

\* two waiters parked, a task admitted after them yielded and then called set(),
\* and both waiters have returned
EventTwoWaitersWoken ==
  \E r1, r2 \in waitRet :
    /\ r1.task # r2.task
    /\ r1.late /\ r2.late
    /\ r1.setAt = r2.setAt /\ r1.by = r2.by
    /\ firstAdv[r1.by] < r1.setAt
    /\ r1.retAt = r2.retAt

----------------------------------------------------------------------------
\* C8: once cancellation has been delivered to a task parked in Event.wait(),
\* Lock.acquire(), Queue.get() or Queue.put(), the task's status is Cancelled
\* and stays so, no waiter deque holds a Future of that task, and no later
\* operation on the primitives raises an unexpected error.
WaiterFuturesOf(t) ==
  {f \in DOMAIN futs : futs[f].owner = t}

CancelLeavesNoWaiter ==
  /\ \A t \in delivered :
       /\ status[t] = "cancelled"
       /\ \A f \in WaiterFuturesOf(t) :
            /\ ~Contains(lwaiters, f) /\ ~Contains(ewaiters, f)
            /\ ~Contains(getters, f) /\ ~Contains(putters, f)
  /\ err = {}

\* a getter was cancelled after put_nowait had resolved its Future, the loop has
\* reaped it, and a later get obtained the item
CancelAfterWakeServed ==
  \E t \in delivered :
    /\ futs[tfut[t]].kind = "get" /\ futs[tfut[t]].sets = 2
    /\ ~Contains(running, t) /\ firstAdv[t] > 0
    /\ getSeq # <<>>

----------------------------------------------------------------------------
\* C9 as claimed: the callbacks of a task are invoked at most once each, in
\* registration order, and all of them have been invoked once the tick that
\* observed the termination has removed the task.
OneTo(n) == [i \in 1..n |-> i]

Reaped(t) ==
  /\ status[t] \in {"finished", "cancelled"}
  /\ firstAdv[t] > 0
  /\ ~Contains(running, t) /\ ~Contains(to_add, t) /\ ~Contains(to_delete, t)

DoneCallbacksOnce ==
  \A t \in Tasks :
    /\ IsPrefix(cbLog[t], OneTo(Len(callbacks[t])))
    /\ Reaped(t) => cbLog[t] = OneTo(Len(callbacks[t]))

\* C10: create_task does not advance the task, a task admitted while a tick is
\* in progress is not in running during that tick, and the first advance of a
\* task happens in a later tick than its admission.
DeferredAdmission ==
  \A t \in Tasks :
    /\ firstAdv[t] # 0 => firstAdv[t] > admTick[t].tick
    /\ phase = "sweep" /\ admTick[t].tick = tickNo
       => firstAdv[t] = 0 /\ ~Contains(running, t)

\* a task created by a running task and a task created by a done-callback have
\* both had their first advance, one tick after their admission
AdmittedInTickAdvancedLater ==
  \E t, u \in Tasks :
    /\ admTick[t].by = "task" /\ firstAdv[t] = admTick[t].tick + 1
    /\ admTick[u].by = "callback" /\ firstAdv[u] = admTick[u].tick + 1

----------------------------------------------------------------------------
\* C11: once run_until_complete has ended, it has returned, and the value it
\* returned is the value the root coroutine returned, whatever other tasks
\* were still in running when the root completed.
RunReturnsRootResult ==
  ruc \in {"returned", "raised"} => ruc = "returned" /\ rucResult = retval[root]

\* C12: once cancel_all has ended, it has returned, every task that was in
\* running when it was called is Cancelled, and none of them is in running.
CancelAllCancels ==
  ruc \in {"returned", "raised"} =>
    /\ ruc = "returned"
    /\ \A t \in caSnap : status[t] = "cancelled" /\ ~Contains(running, t)

\* C13: a tick never advances a task whose status is Cancelled: when the sweep
\* is at such a task, next() is not called on it.
NeverAdvanceCancelled ==
  [][\A t \in Tasks :
       (AtTask(t) /\ status[t] = "cancelled") => (cur' = cur /\ idx' = idx)]_vars

\* C14: when the coroutine of a task has raised an error during a tick, then
\* once that tick is over the task is done, it is not in running, and each of
\* its done-callbacks has been invoked.
FailureContained ==
  \A t \in Tasks :
    (pc[t] = "raised" /\ phase = "idle") =>
      /\ Done(t) /\ ~Contains(running, t)
      /\ cbLog[t] = OneTo(Len(callbacks[t]))

\* C15: the tuple gather returns has one element per argument, every argument
\* is done by then, and the i-th element is the value the i-th argument's
\* coroutine returned.
GatherOrder ==
  \A a \in Tasks :
    gout[a] # <<>> =>
      /\ Len(gout[a]) = Len(gids[a])
      /\ \A i \in 1..Len(gids[a]) :
           /\ Done(gids[a][i])
           /\ retval[gids[a][i]] # None => gout[a][i] = retval[gids[a][i]]

\* C16: Task.set_result has been called once on a Finished task and never on
\* any other task (a Cancelled one in particular), and the result of a
\* Finished task is the value its coroutine returned.
ResultWriteOnce ==
  \A t \in Tasks :
    /\ nset[t] = IF status[t] = "finished" THEN 1 ELSE 0
    /\ status[t] = "finished" => result[t] = retval[t]

\* C18: no task is in running more than once.
UniqueScheduling ==
  \A t \in Tasks : Count(running, t) <= 1

\* C17: the coroutine of an awaited Task is resumed by the loop only, and a
\* task that has received a value from "yield from t" received it after t was
\* done, and received the value t's coroutine returned.
AwaitTask ==
  /\ advBy = {}
  /\ \A a \in Tasks :
       recv[a] # <<>> => Done(awaited[a]) /\ recv[a] = <<retval[awaited[a]]>>

\* tick() returns: the step from the sweep back to the caller
TickReturns == phase = "sweep" /\ phase' = "idle"

\* C19 as claimed: when tick() returns, to_add and to_delete are empty.
StagingEmptyAfterTick ==
  [][TickReturns => to_add' = <<>> /\ to_delete' = <<>>]_vars

\* C19 as the code has it: when tick() returns, to_delete is empty and to_add
\* holds exactly the tasks that running tasks and done-callbacks created during
\* that tick; they stay staged until the next tick drains to_add.
StagingAfterTick ==
  [][TickReturns =>
       /\ to_delete' = <<>>
       /\ {to_add'[i] : i \in DOMAIN to_add'} =
            {t \in Tasks : /\ admTick'[t].tick = tickNo
                           /\ admTick'[t].by \in {"task", "callback"}}]_vars

\* a tick has returned leaving a task created by a running task and a task
\* created by a done-callback staged in to_add
StagedAfterTick ==
  /\ phase = "idle" /\ tickNo > 0 /\ to_delete = <<>>
  /\ \E t, u \in Tasks :
       /\ Contains(to_add, t) /\ admTick[t] = [tick |-> tickNo, by |-> "task"]
       /\ Contains(to_add, u) /\ admTick[u] = [tick |-> tickNo, by |-> "callback"]

\* the state of the queue and of the lock, with the Futures of their waiters
PrimitiveState ==
  <<queue, getters, putters, unfinished, finished, locked, lwaiters, futs>>

\* C20: put_nowait on a full queue, get_nowait on an empty queue, task_done
\* with no unfinished task and release on an unlocked lock raise an error and
\* change neither the items, the waiter deques, the counter, the finished flag
\* and the locked flag, nor the Future of any waiter.
MisuseNoEffect ==
  [][\A t \in Tasks :
       /\ (PutNowait(t) /\ maxsize > 0 /\ Len(queue) >= maxsize)
            => raised' = Append(raised, "QueueFull") /\ UNCHANGED PrimitiveState
       /\ (GetNowait(t) /\ queue = <<>>)
            => raised' = Append(raised, "QueueEmpty") /\ UNCHANGED PrimitiveState
       /\ (TaskDone(t) /\ unfinished = 0)
            => raised' = Append(raised, "TaskDoneUnderflow") /\ UNCHANGED PrimitiveState
       /\ (ReleaseFree(t) /\ ~locked)
            => raised' = Append(raised, "LockNotAcquired") /\ UNCHANGED PrimitiveState
       /\ (Release(t) /\ ~locked)
            => "RuntimeError" \in err' /\ UNCHANGED PrimitiveState]_vars

\* put_nowait has raised on a full queue while a getter that was not woken is
\* parked, and the getter is still not woken
MisuseWithParkedGetter ==
  /\ raised # <<>> /\ raised[Len(raised)] = "QueueFull"
  /\ maxsize > 0 /\ Len(queue) = maxsize
  /\ \E i \in DOMAIN getters : ~FutureDone(futs, getters[i])

\* C21: whenever no task is executing, an unlocked lock with parked waiters
\* has resolved the Future of its oldest waiter, so that waiter acquires the
\* lock on its next advance; this includes the cancellation of a waiter that
\* release() had already woken.
LockNoLostWakeup ==
  (cur = None /\ ~locked /\ lwaiters # <<>>) => FutureDone(futs, Head(lwaiters))

\* the first holder released and woke waiter u, u was cancelled before it
\* resumed, and the next waiter v has acquired the lock
LockHandedOverAfterCancel ==
  \E u \in delivered, v \in holders :
    /\ Len(enterOrder) = 2 /\ enterOrder[2] = v /\ enterOrder[1] # v
    /\ tfut[u] # 0 /\ futs[tfut[u]].kind = "acq"
    /\ FutureDone(futs, tfut[u]) /\ futs[tfut[u]].by = enterOrder[1]
    /\ tfut[v] # 0 /\ futs[tfut[v]].kind = "acq"

\* the tasks parked in get() and in put()
ParkedGetters == {t \in Tasks : pc[t] = "get"}
ParkedPutters == {t \in Tasks : pc[t] = "put"}

\* C22: whenever no task is executing, a queue that holds an item has woken
\* one of the getters parked on it (if any), and a queue with room has woken
\* one of the putters parked on it (if any); this includes the cancellation of
\* a waiter that had been woken before.
QueueWakeupPassedOn ==
  cur = None =>
    /\ (queue # <<>> /\ ParkedGetters # {})
         => \E t \in ParkedGetters : FutureDone(futs, tfut[t])
    /\ ((maxsize <= 0 \/ Len(queue) < maxsize) /\ ParkedPutters # {})
         => \E t \in ParkedPutters : FutureDone(futs, tfut[t])

\* the only item ever put woke getter u, u was cancelled before it resumed,
\* and the other parked getter v was woken and received the item
QueueItemPassedToNextGetter ==
  \E u \in delivered, v \in Tasks :
    /\ nEnq = 1 /\ u # v
    /\ tfut[u] # 0 /\ futs[tfut[u]].kind = "get" /\ futs[tfut[u]].sets = 2
    /\ tfut[v] # 0 /\ futs[tfut[v]].kind = "get" /\ futs[tfut[v]].sets = 1
    /\ titem[v] = 1 /\ getSeq = <<1>>

\* C23: set_result is called at most once on each waiter Future of an Event,
\* a Lock or a Queue, in every run, cancellations of parked waiters included.
WaiterSetResultOnce ==
  \A f \in DOMAIN futs : futs[f].sets <= 1

\* C24: a task inside the body of the lock's scope holds the lock: the lock
\* is locked and the task is its holder.
ScopedHoldsLock ==
  \A t \in scoped : locked /\ t \in holders

\* C25: on a bounded queue (maxsize 1 included), with the loop ticking, the producer of target
\* items and the consumer of target items both finish, whichever was admitted
\* first.
ProducerConsumerFinish ==
  <>(status[producer] = "finished" /\ status[consumer] = "finished")

\* both have finished after the producer was parked on the full queue and the
\* consumer on the empty one, and the consumer got the items in order
ProducerConsumerDoneAfterParking ==
  /\ status[producer] = "finished" /\ status[consumer] = "finished"
  /\ maxsize = 1 /\ target = 2 /\ getSeq = <<1, 2>>
  /\ \E f \in DOMAIN futs : futs[f].kind = "put" /\ futs[f].owner = producer
  /\ \E f \in DOMAIN futs : futs[f].kind = "get" /\ futs[f].owner = consumer

\* a join() called with no unfinished task completed without a pause; any
\* other completed after unfinished_tasks had reached 0 since the call
JoinAfterZero ==
  \A r \in joinRet :
    /\ (r.unf = 0) => ~r.paused
    /\ (r.unf > 0) => (r.paused /\ r.zeros1 > r.zeros0)

\* C26: join() completes at once when nothing is unfinished and otherwise only
\* after unfinished_tasks was 0 after the call; and a task parked in join()
\* when unfinished_tasks reaches 0 completes its join once the loop ticks
\* again, whatever is put in between.
QueueJoin ==
  /\ []JoinAfterZero
  /\ \A t \in Tasks :
       (pc[t] = "join" /\ zeros > joinAt[t].zeros /\ tickNo < MaxTicks)
         ~> (pc[t] # "join")

\* a parked join completed although an item had been put, and finished
\* cleared, between the task_done that reached 0 and the task's resumption
JoinCompletedAfterNewPut ==
  \E r \in joinRet : r.paused /\ r.unfRet > 0 /\ r.zeros1 > r.zeros0 /\ ~finished

====
